---- MODULE Spec2Model ----
(***************************************************************************)
(* Model of the iONA Energy token/session client (IONAEnergyAPI) and its   *)
(* three read operations, custom_components/ionaenergy/api.py.             *)
(*                                                                         *)
(* One client instance is shared by a set of host tasks.  A task runs one  *)
(* read operation at a time; an operation is cut into atomic steps at the  *)
(* points where the coroutine waits for the network (the refresh POST and  *)
(* the GETs).  The server is free to answer every request with any status  *)
(* and any payload, or not at all (transport failure).                     *)
(*                                                                         *)
(* Spec is the client class under callers that make one call at a time.   *)
(* SpecLifecycle is the integration: the client is built by                *)
(* async_setup_entry, polled by the sensors, and rebuilt from the stored    *)
(* record when the host restarts.  SpecExpiry draws the inputs of          *)
(* _is_token_expired from bounded sets and calls it.                       *)
(***************************************************************************)
EXTENDS Integers, Sequences, FiniteSets, TLC

\* ---------------------------------------------------------------- bounds
\* The clock runs from 0 to MaxTime (seconds).
MaxTime == 2
\* The event log of one invocation keeps at most MaxLog events; a read
\* operation makes at most eight (two refresh POSTs, two GETs, their
\* answers).
MaxLog == 8

\* -------------------------------------------------------------- constants
\* api.py:57  "return time_until_expiry < 300  # 5 minutes buffer"
ExpiryBuffer == 300

\* const.py:9-11
CONF_ACCESS_TOKEN == "access_token"
CONF_REFRESH_TOKEN == "refresh_token"
CONF_EXPIRES_IN == "expires_in"

\* ------------------------------------------------------- optional values
\* Python None / a missing dict key is <<>>, a present value v is <<v>>.
None == <<>>
Some(v) == <<v>>

\* Python truthiness of an optional string: None and "" are falsy.
TruthyStr(x) == x # None /\ x[1] # ""
\* Python truthiness of an optional integer: None and 0 are falsy.
TruthyInt(x) == x # None /\ x[1] # 0
\* Python truthiness of an optional list: None and [] are falsy.
TruthySeq(x) == x # None /\ x[1] # <<>>

\* ------------------------------------------------------------ the server
Tasks == {"t1", "t2"}
Ops == {"get_initialisation_data", "get_current_power", "get_meter_info"}
Statuses == {200, 401, 500}

\* JSON bodies of the auth endpoint: each field may be missing.
TokenPayloads ==
    [access_token : {None, Some("a1"), Some("a2")},
     refresh_token : {None, Some("r1")},
     expires_in : {None, Some(0), Some(301), Some(3600)}]

\* Token fields a config entry can hold after the setup flow
\* (config_flow.py:74-80 stores auth_response.get(...) for each).
InitialTokens ==
    [access_token : {None, Some("a0")},
     refresh_token : {None, Some("r0")},
     expires_in : {None, Some(301), Some(3600)}]

NoValue == [none |-> TRUE]

JsonBodies == {[json |-> "j1"], [json |-> "j2"]}

Reading1 == [power |-> Some(100), timestamp |-> Some("t1")]
Reading2 == [power |-> Some(150), timestamp |-> Some("t2")]
ReadingBare == [power |-> None, timestamp |-> None]

PowerBodies ==
    [status : {"ok", "error"},
     results : {None, Some(<<>>), Some(<<Reading1>>),
                Some(<<Reading1, Reading2>>), Some(<<Reading2, Reading1>>),
                Some(<<ReadingBare>>)}]

Bodies(o) == IF o = "get_current_power" THEN PowerBodies ELSE JsonBodies

\* ----------------------------------------------------------------- state
VARIABLES
    access_token,        \* self.access_token
    refresh_token,       \* self.refresh_token
    expires_in,          \* self.expires_in
    token_created_at,    \* self.token_created_at
    last_token_refresh,  \* self.last_token_refresh
    config_entry,        \* self.config_entry: None or Some("entry")
    entry_data,          \* config_entry.data, the persisted record
    now,                 \* time.time()
    pc,                  \* per task: where its read operation is waiting
    op,                  \* per task: the read operation it runs
    log,                 \* per task: network events of the invocation
    outcome,             \* per task: result or failure of the invocation
    is_expired_ret,      \* return value of a direct _is_token_expired() call
    conn_sensor,         \* IONAEnergyConnectionSensor: value and availability
    issued               \* history: the token set the auth endpoint issued
                         \* last to this installation, and when

tokenVars == <<access_token, refresh_token, expires_in,
               token_created_at, last_token_refresh>>
clientVars == <<access_token, refresh_token, expires_in,
                token_created_at, last_token_refresh, entry_data>>
vars == <<access_token, refresh_token, expires_in, token_created_at,
          last_token_refresh, config_entry, entry_data, now,
          pc, op, log, outcome, is_expired_ret, conn_sensor, issued>>

\* ------------------------------------------------------- results, events
Pending == [kind |-> "pending", status |-> 0, value |-> NoValue]
Ok(v) == [kind |-> "ok", status |-> 200, value |-> v]
Err(k, s) == [kind |-> k, status |-> s, value |-> NoValue]

GetEv(tok) == [ev |-> "GET", status |-> 0, tok |-> tok, body |-> NoValue]
PostEv(tok) == [ev |-> "POST", status |-> 0, tok |-> tok, body |-> NoValue]
GRespEv(s, b) ==
    [ev |-> "GRESP", status |-> s, tok |-> None,
     body |-> IF s = 200 THEN b ELSE NoValue]
PRespEv(s, nt) ==
    [ev |-> "PRESP", status |-> s,
     tok |-> IF s = 200 THEN nt.access_token ELSE None,
     body |-> NoValue]
GFailEv == [ev |-> "GFAIL", status |-> 0, tok |-> None, body |-> NoValue]
PFailEv == [ev |-> "PFAIL", status |-> 0, tok |-> None, body |-> NoValue]
\* authenticate: the login POST and its answer
LoginEv == [ev |-> "LOGIN", status |-> 0, tok |-> None, body |-> NoValue]
ARespEv(s, nt) ==
    [ev |-> "ARESP", status |-> s, tok |-> None,
     body |-> IF s = 200 THEN nt ELSE NoValue]
AFailEv == [ev |-> "AFAIL", status |-> 0, tok |-> None, body |-> NoValue]
\* refresh_access_token gave up before sending anything
NoRefreshEv ==
    [ev |-> "NOREFRESH", status |-> 0, tok |-> None, body |-> NoValue]

\* ------------------------------------------------------- pure functions
\* _is_token_expired (api.py:50-57)
IsTokenExpired_Inclusive(tok, exp, created, t) ==
    IF ~TruthyStr(tok) \/ ~TruthyInt(exp) THEN TRUE
    ELSE (created + exp[1]) - t <= ExpiryBuffer

IsTokenExpired(tok, exp, created, t) ==
    IF ~TruthyStr(tok) \/ ~TruthyInt(exp) THEN TRUE
    ELSE (created + exp[1]) - t < ExpiryBuffer

\* updated_data of _update_tokens_in_config_entry (api.py:66-71)
UpdatedData_KeepsOldRefresh(data, new_tokens) ==
    [data EXCEPT ![CONF_ACCESS_TOKEN] = new_tokens.access_token,
                 ![CONF_EXPIRES_IN] = new_tokens.expires_in]

UpdatedData(data, new_tokens) ==
    [data EXCEPT ![CONF_ACCESS_TOKEN] = new_tokens.access_token,
                 ![CONF_REFRESH_TOKEN] = new_tokens.refresh_token,
                 ![CONF_EXPIRES_IN] = new_tokens.expires_in]

\* the reading returned by get_current_power (api.py:253-258, 282-287)
PowerReading(latest) ==
    [power |-> IF latest.power = None THEN 0 ELSE latest.power[1],
     timestamp |-> IF latest.timestamp = None THEN ""
                   ELSE latest.timestamp[1],
     unit |-> "W"]

\* payload validation of get_current_power (api.py:244-262, 273-291)
ParsePower_First(body) ==
    IF body.status = "ok" /\ TruthySeq(body.results)
    THEN LET results == body.results[1] IN
         IF results # <<>>
         THEN Ok(PowerReading(results[1]))
         ELSE Err("NoPowerData", 0)
    ELSE Err("InvalidFormat", 0)

ParsePower(body) ==
    IF body.status = "ok" /\ TruthySeq(body.results)
    THEN LET results == body.results[1] IN
         IF results # <<>>
         THEN Ok(PowerReading(results[Len(results)]))
         ELSE Err("NoPowerData", 0)
    ELSE Err("InvalidFormat", 0)

\* what a read operation returns for a 200 body
\* (api.py:186/199, 244-262/273-291, 323/330)
ParseResponse(o, body) ==
    IF o = "get_current_power" THEN ParsePower(body) ELSE Ok(body)

\* "if not self.access_token" of _ensure_valid_token (api.py:88)
HasToken_Unchecked(tok) == TRUE

HasToken(tok) == TruthyStr(tok)

\* "if response.status == 200" of refresh_access_token (api.py:146)
RefreshSucceeded_AnyStatus(status) == TRUE

RefreshSucceeded(status) == status = 200

\* "if response.status == 200" of authenticate (api.py:114)
AuthSucceeded_Below500(status) == status < 500

AuthSucceeded(status) == status = 200

\* what IONAEnergyConnectionSensor.async_update stores after the call
\* (sensor.py:66-75)
SensorUnknown == [native_value |-> "Unknown", available |-> FALSE]

ConnectionSensorState_StaysAvailable(out) ==
    IF out.kind = "ok"
    THEN [native_value |-> "Connected", available |-> TRUE]
    ELSE [native_value |-> "Disconnected", available |-> TRUE]

ConnectionSensorState(out) ==
    IF out.kind = "ok"
    THEN [native_value |-> "Connected", available |-> TRUE]
    ELSE [native_value |-> "Disconnected", available |-> FALSE]

\* the token set of an auth payload, stamped with the time of issue
IssuedAt(nt, t) ==
    [access_token |-> nt.access_token, refresh_token |-> nt.refresh_token,
     expires_in |-> nt.expires_in, at |-> t]

\* "elif response.status == 401" on the first response only
\* (api.py:187, 264, 324; the retry response has no 401 branch)
MayRetry_Always(pcv, status) == status = 401

MayRetry_AnyError(pcv, status) == pcv = "get_first" /\ status # 200

MayRetry(pcv, status) == pcv = "get_first" /\ status = 401

\* ----------------------------------------------------------- step pieces
\* where an operation waits after sending a GET / a refresh POST
NextGetPc_AlwaysFirst(pcv) == "get_first"

NextGetPc(pcv) ==
    IF pcv \in {"idle", "refresh_pre", "resume_pre"}
    THEN "get_first" ELSE "get_retry"
\* where an operation resumes once its refresh has been applied
ResumePc(pcv) == IF pcv = "refresh_pre" THEN "resume_pre" ELSE "resume_retry"
NextPostPc(pcv) == IF pcv = "idle" THEN "refresh_pre" ELSE "refresh_retry"

\* the log keeps the first MaxLog events of an invocation
Step(p, newpc, entries, out) ==
    /\ pc' = [pc EXCEPT ![p] = newpc]
    /\ log' = [log EXCEPT ![p] = IF Len(@) + Len(entries) <= MaxLog
                                 THEN @ \o entries ELSE @]
    /\ outcome' = [outcome EXCEPT ![p] = out]

\* "headers = {Authorization: Bearer {self.access_token}}; session.get(...)"
\* (api.py:173-184, 193-197, 220-242, 270-271, 312-321, 327-328)
IssueGet(p, entries, tok) ==
    Step(p, NextGetPc(pc[p]), entries \o <<GetEv(tok)>>, Pending)

\* the except/raise of _ensure_valid_token (api.py:94-98): the failure of
\* refresh_access_token is logged and re-raised, ending the read operation
RefreshFailed_Swallowed(p, entries, err) ==
    IssueGet(p, entries, access_token)

RefreshFailed(p, entries, err) == Step(p, "done", entries, err)

\* refresh_access_token up to the POST (api.py:128-145)
StartRefresh_NoCheck(p, entries) ==
    Step(p, NextPostPc(pc[p]), entries \o <<PostEv(refresh_token)>>, Pending)

StartRefresh_Locked(p, entries) ==
    IF ~TruthyStr(refresh_token)
    THEN RefreshFailed(p, entries \o <<NoRefreshEv>>,
                       Err("NoRefreshToken", 0))
    ELSE IF \E q \in Tasks \ {p} : pc[q] \in {"refresh_pre", "refresh_retry"}
         THEN IssueGet(p, entries, access_token)
         ELSE Step(p, NextPostPc(pc[p]),
                   entries \o <<PostEv(refresh_token)>>, Pending)

StartRefresh(p, entries) ==
    IF ~TruthyStr(refresh_token)
    THEN RefreshFailed(p, entries \o <<NoRefreshEv>>,
                       Err("NoRefreshToken", 0))
    ELSE Step(p, NextPostPc(pc[p]),
              entries \o <<PostEv(refresh_token)>>, Pending)

\* _ensure_valid_token (api.py:86-98) followed by the GET of the caller
EnsureValidTokenThenGet_AlwaysRefresh(p, entries) ==
    IF ~HasToken(access_token)
    THEN Step(p, "done", entries, Err("NoToken", 0))
    ELSE StartRefresh(p, entries)

EnsureValidTokenThenGet_StaleHeader(p, entries) ==
    IF ~HasToken(access_token)
    THEN Step(p, "done", entries, Err("NoToken", 0))
    ELSE IF IsTokenExpired(access_token, expires_in, token_created_at, now)
         THEN StartRefresh(p, entries)
         ELSE IssueGet(p, entries,
                       IF log[p] # <<>> THEN log[p][1].tok ELSE access_token)

EnsureValidTokenThenGet(p, entries) ==
    IF ~HasToken(access_token)
    THEN Step(p, "done", entries, Err("NoToken", 0))
    ELSE IF IsTokenExpired(access_token, expires_in, token_created_at, now)
         THEN StartRefresh(p, entries)
         ELSE IssueGet(p, entries, access_token)

\* _update_tokens_in_config_entry (api.py:59-84)
UpdateTokensInConfigEntry_CreatedOnly(new_tokens) ==
    IF config_entry = None
    THEN UNCHANGED clientVars
    ELSE /\ access_token' = new_tokens.access_token
         /\ refresh_token' = new_tokens.refresh_token
         /\ expires_in' = new_tokens.expires_in
         /\ token_created_at' = now
         /\ last_token_refresh' = last_token_refresh
         /\ entry_data' = UpdatedData(entry_data, new_tokens)

UpdateTokensInConfigEntry_MemoryOnly(new_tokens) ==
    IF config_entry = None
    THEN UNCHANGED clientVars
    ELSE /\ access_token' = new_tokens.access_token
         /\ refresh_token' = new_tokens.refresh_token
         /\ expires_in' = new_tokens.expires_in
         /\ token_created_at' = now
         /\ last_token_refresh' = now
         /\ entry_data' = entry_data

UpdateTokensInConfigEntry(new_tokens) ==
    IF config_entry = None
    THEN UNCHANGED clientVars
    ELSE /\ access_token' = new_tokens.access_token
         /\ refresh_token' = new_tokens.refresh_token
         /\ expires_in' = new_tokens.expires_in
         /\ token_created_at' = now
         /\ last_token_refresh' = now
         /\ entry_data' = UpdatedData(entry_data, new_tokens)

\* ---------------------------------------------------------------- actions
\* __init__ from a config entry's data (api.py:25-38); set_config_entry
\* has not been called yet.
Init ==
    /\ \E t \in InitialTokens :
        /\ entry_data = [username |-> "user", password |-> "secret",
                         access_token |-> t.access_token,
                         refresh_token |-> t.refresh_token,
                         expires_in |-> t.expires_in]
        /\ access_token = t.access_token
        /\ refresh_token = t.refresh_token
        /\ expires_in = t.expires_in
    /\ config_entry = None
    /\ now = 0
    /\ token_created_at = 0
    /\ last_token_refresh = 0
    /\ pc = [p \in Tasks |-> "idle"]
    /\ op = [p \in Tasks |-> "none"]
    /\ log = [p \in Tasks |-> <<>>]
    /\ outcome = [p \in Tasks |-> Pending]
    /\ is_expired_ret = None
    /\ conn_sensor = SensorUnknown
    /\ issued = IssuedAt(entry_data, 0)

\* set_config_entry (api.py:46-48), called by async_setup_entry
\* (__init__.py:19-20)
SetConfigEntry ==
    /\ config_entry = None
    /\ config_entry' = Some("entry")
    /\ UNCHANGED <<clientVars, now, pc, op, log, outcome, is_expired_ret, conn_sensor, issued>>

\* the clock advances
Tick ==
    /\ now < MaxTime
    /\ now' = now + 1
    /\ UNCHANGED <<clientVars, config_entry, pc, op, log, outcome,
                   is_expired_ret, conn_sensor, issued>>

\* no other task is inside a read operation: the host finishes one update
\* before it starts the next
OthersIdle(p) == \A q \in Tasks \ {p} : pc[q] = "idle"

\* a read operation is called and runs up to its first network call
\* (api.py:168-184, 215-242, 307-321)
StartRead(p, o) ==
    /\ pc[p] = "idle"
    /\ op' = [op EXCEPT ![p] = o]
    /\ EnsureValidTokenThenGet(p, <<>>)
    /\ UNCHANGED <<clientVars, config_entry, now, is_expired_ret, conn_sensor, issued>>

\* the auth endpoint answers a refresh POST (api.py:145-166); on success
\* _ensure_valid_token returns and the caller sends its GET
RefreshRespond(p, status, new_tokens) ==
    /\ pc[p] \in {"refresh_pre", "refresh_retry"}
    /\ IF RefreshSucceeded(status)
       THEN /\ UpdateTokensInConfigEntry(new_tokens)
            /\ IssueGet(p, <<PRespEv(status, new_tokens)>>, access_token')
       ELSE /\ UNCHANGED clientVars
            /\ RefreshFailed(p, <<PRespEv(status, new_tokens)>>,
                             Err("TokenRefreshError", status))
    /\ issued' = IF status = 200 THEN IssuedAt(new_tokens, now) ELSE issued
    /\ UNCHANGED <<config_entry, now, op, is_expired_ret, conn_sensor>>

\* the refresh POST times out or the connection fails (api.py:142-145)
RefreshTransportFail(p) ==
    /\ pc[p] \in {"refresh_pre", "refresh_retry"}
    /\ RefreshFailed(p, <<PFailEv>>, Err("Transport", 0))
    /\ UNCHANGED <<clientVars, config_entry, now, op, is_expired_ret, conn_sensor, issued>>

\* the API answers a GET (api.py:185-213, 243-305, 322-344)
GetRespond(p, status, body) ==
    /\ pc[p] \in {"get_first", "get_retry"}
    /\ IF status = 200
       THEN Step(p, "done", <<GRespEv(status, body)>>,
                 ParseResponse(op[p], body))
       ELSE IF MayRetry(pc[p], status)
            THEN EnsureValidTokenThenGet(p, <<GRespEv(status, body)>>)
            ELSE Step(p, "done", <<GRespEv(status, body)>>,
                      Err("StatusError", status))
    /\ UNCHANGED <<clientVars, config_entry, now, op, is_expired_ret, conn_sensor, issued>>

\* a GET times out or the connection fails (api.py:181, 194, 242, 271,
\* 321, 328)
GetTransportFail_Retried(p) ==
    /\ pc[p] \in {"get_first", "get_retry"}
    /\ IssueGet(p, <<GFailEv>>, access_token)
    /\ UNCHANGED <<clientVars, config_entry, now, op, is_expired_ret, conn_sensor, issued>>

GetTransportFail(p) ==
    /\ pc[p] \in {"get_first", "get_retry"}
    /\ Step(p, "done", <<GFailEv>>, Err("Transport", 0))
    /\ UNCHANGED <<clientVars, config_entry, now, op, is_expired_ret, conn_sensor, issued>>

\* the call of task p is over: its result or failure goes to the caller
\* and the task may call again
FinishCall(p) ==
    /\ pc[p] = "done"
    /\ pc' = [pc EXCEPT ![p] = "idle"]
    /\ op' = [op EXCEPT ![p] = "none"]
    /\ log' = [log EXCEPT ![p] = <<>>]
    /\ outcome' = [outcome EXCEPT ![p] = Pending]
    /\ UNCHANGED <<clientVars, config_entry, now, is_expired_ret, issued>>

\* a caller other than the connection sensor takes the result
Return(p) == FinishCall(p) /\ UNCHANGED conn_sensor

\* IONAEnergyConnectionSensor.async_update (sensor.py:64-75): its call of
\* get_initialisation_data is over and it stores the state it derives
ConnectionSensorUpdate(p) ==
    /\ op[p] = "get_initialisation_data"
    /\ FinishCall(p)
    /\ conn_sensor' = ConnectionSensorState(outcome[p])

\* the update of another sensor is over (sensor.py:175-197)
OtherSensorUpdate(p) == op[p] # "get_initialisation_data" /\ Return(p)

\* authenticate is called and sends the login POST (api.py:100-113)
StartAuthenticate(p) ==
    /\ pc[p] = "idle"
    /\ op' = [op EXCEPT ![p] = "authenticate"]
    /\ Step(p, "auth_post", <<LoginEv>>, Pending)
    /\ UNCHANGED <<clientVars, config_entry, now, is_expired_ret,
                   conn_sensor, issued>>

\* the auth endpoint answers the login POST (api.py:113-126)
AuthRespond(p, status, tokens) ==
    /\ pc[p] = "auth_post"
    /\ IF AuthSucceeded(status)
       THEN /\ token_created_at' = now
            /\ last_token_refresh' = now
            /\ UNCHANGED <<access_token, refresh_token, expires_in,
                           entry_data>>
            /\ Step(p, "done", <<ARespEv(status, tokens)>>, Ok(tokens))
       ELSE /\ UNCHANGED clientVars
            /\ Step(p, "done", <<ARespEv(status, tokens)>>,
                    Err("AuthenticationError", status))
    /\ UNCHANGED <<config_entry, now, op, is_expired_ret, conn_sensor,
                   issued>>

\* the login POST times out or the connection fails (api.py:110-113)
AuthTransportFail(p) ==
    /\ pc[p] = "auth_post"
    /\ Step(p, "done", <<AFailEv>>, Err("Transport", 0))
    /\ UNCHANGED <<clientVars, config_entry, now, op, is_expired_ret,
                   conn_sensor, issued>>

\* a caller invokes authenticate while no other call is running
CallAuthenticate(p) == OthersIdle(p) /\ StartAuthenticate(p)

\* the host polls: a task calls a read operation (sensor.py:68, 179)
PollRead(p, o) == OthersIdle(p) /\ StartRead(p, o)

\* the API answers the GET of task p with status s and some body
GetAnswered(p, s) == \E b \in Bodies(op[p]) : GetRespond(p, s, b)

Next ==
    \/ SetConfigEntry
    \/ Tick
    \/ \E p \in Tasks, o \in Ops : PollRead(p, o)
    \/ \E p \in Tasks, s \in Statuses, nt \in TokenPayloads :
           RefreshRespond(p, s, nt)
    \/ \E p \in Tasks : RefreshTransportFail(p)
    \/ \E p \in Tasks, s \in Statuses : GetAnswered(p, s)
    \/ \E p \in Tasks : GetTransportFail(p)
    \/ \E p \in Tasks : Return(p)
    \/ \E p \in Tasks : CallAuthenticate(p)
    \/ \E p \in Tasks, s \in Statuses, nt \in TokenPayloads :
           AuthRespond(p, s, nt)
    \/ \E p \in Tasks : AuthTransportFail(p)

Spec == Init /\ [][Next]_vars

\* ------------------------------------------------ the integration's life
\* async_setup_entry (__init__.py:16-25): the client is built from the
\* persisted record and the config entry is attached before anything runs.
InitSetup ==
    /\ \E t \in InitialTokens :
        /\ entry_data = [username |-> "user", password |-> "secret",
                         access_token |-> t.access_token,
                         refresh_token |-> t.refresh_token,
                         expires_in |-> t.expires_in]
        /\ access_token = t.access_token
        /\ refresh_token = t.refresh_token
        /\ expires_in = t.expires_in
    /\ config_entry = Some("entry")
    /\ now = 0
    /\ token_created_at = 0
    /\ last_token_refresh = 0
    /\ pc = [p \in Tasks |-> "idle"]
    /\ op = [p \in Tasks |-> "none"]
    /\ log = [p \in Tasks |-> <<>>]
    /\ outcome = [p \in Tasks |-> Pending]
    /\ is_expired_ret = None
    /\ conn_sensor = SensorUnknown
    /\ issued = IssuedAt(entry_data, 0)

\* the host restarts: running calls are gone, async_setup_entry builds a new
\* client from the persisted record (__init__.py:19-20, api.py:25-38) and
\* new sensors (sensor.py:43-52)
Restart_ForgetsTokens ==
    /\ access_token' = None
    /\ refresh_token' = None
    /\ expires_in' = None
    /\ config_entry' = Some("entry")
    /\ token_created_at' = now
    /\ last_token_refresh' = now
    /\ pc' = [p \in Tasks |-> "idle"]
    /\ op' = [p \in Tasks |-> "none"]
    /\ log' = [p \in Tasks |-> <<>>]
    /\ outcome' = [p \in Tasks |-> Pending]
    /\ conn_sensor' = SensorUnknown
    /\ UNCHANGED <<entry_data, now, is_expired_ret, issued>>

Restart ==
    /\ access_token' = entry_data[CONF_ACCESS_TOKEN]
    /\ refresh_token' = entry_data[CONF_REFRESH_TOKEN]
    /\ expires_in' = entry_data[CONF_EXPIRES_IN]
    /\ config_entry' = Some("entry")
    /\ token_created_at' = now
    /\ last_token_refresh' = now
    /\ pc' = [p \in Tasks |-> "idle"]
    /\ op' = [p \in Tasks |-> "none"]
    /\ log' = [p \in Tasks |-> <<>>]
    /\ outcome' = [p \in Tasks |-> Pending]
    /\ conn_sensor' = SensorUnknown
    /\ UNCHANGED <<entry_data, now, is_expired_ret, issued>>

NextLifecycle ==
    \/ Tick
    \/ \E p \in Tasks, o \in Ops : PollRead(p, o)
    \/ \E p \in Tasks, s \in Statuses, nt \in TokenPayloads :
           RefreshRespond(p, s, nt)
    \/ \E p \in Tasks : RefreshTransportFail(p)
    \/ \E p \in Tasks, s \in Statuses : GetAnswered(p, s)
    \/ \E p \in Tasks : GetTransportFail(p)
    \/ \E p \in Tasks : ConnectionSensorUpdate(p)
    \/ \E p \in Tasks : OtherSensorUpdate(p)
    \/ Restart

SpecLifecycle == InitSetup /\ [][NextLifecycle]_vars

\* ------------------------------------------------- overlapping operations
\* The sensors share one client (sensor.py:28-37) and their updates may
\* overlap: every await of a read operation lets another one run.  Each
\* task is one sensor: the connection sensor calls get_initialisation_data
\* (sensor.py:68), the power sensor get_current_power (sensor.py:179).
SensorOp(p) ==
    IF p = "t1" THEN "get_initialisation_data" ELSE "get_current_power"

\* a sensor's update starts while the other's may be running
SensorPoll(p) == StartRead(p, SensorOp(p))

\* bodies the API answers with in the race: one JSON document, and for
\* get_current_power a reading and an empty result list
RaceBodies(o) ==
    IF o = "get_current_power"
    THEN {[status |-> "ok", results |-> Some(<<Reading1>>)],
          [status |-> "ok", results |-> Some(<<>>)]}
    ELSE {[json |-> "j1"]}

\* the API answers the GET of task p with status s and some body
RaceAnswered(p, s) == \E b \in RaceBodies(op[p]) : GetRespond(p, s, b)

\* refresh payloads of the race; a token with expires_in = 299 is locally
\* expired from the moment it is stored
RacePayloads ==
    [access_token : {Some("a1"), Some("a2")},
     refresh_token : {Some("r1")},
     expires_in : {Some(299), Some(3600)}]

\* the auth endpoint answers a refresh POST (api.py:145-166).  On success
\* the tokens are stored without a suspension point (api.py:151, 59-84);
\* leaving "async with ClientSession" (api.py:142) awaits the close of the
\* session, so other operations may run before the caller builds its
\* Authorization header.
RefreshApplied(p, status, new_tokens) ==
    /\ pc[p] \in {"refresh_pre", "refresh_retry"}
    /\ IF RefreshSucceeded(status)
       THEN /\ UpdateTokensInConfigEntry(new_tokens)
            /\ Step(p, ResumePc(pc[p]), <<PRespEv(status, new_tokens)>>,
                    Pending)
       ELSE /\ UNCHANGED clientVars
            /\ RefreshFailed(p, <<PRespEv(status, new_tokens)>>,
                             Err("TokenRefreshError", status))
    /\ issued' = IF status = 200 THEN IssuedAt(new_tokens, now) ELSE issued
    /\ UNCHANGED <<config_entry, now, op, is_expired_ret, conn_sensor>>

\* _ensure_valid_token has returned: the caller builds the header from
\* self.access_token as it is now and sends its GET
\* (api.py:173-184, 193-197, 220-242, 270-271, 312-321, 327-328)
ResumeGet(p) ==
    /\ pc[p] \in {"resume_pre", "resume_retry"}
    /\ IssueGet(p, <<>>, access_token)
    /\ UNCHANGED <<clientVars, config_entry, now, op, is_expired_ret,
                   conn_sensor, issued>>

NextConcurrent ==
    \/ Tick
    \/ \E p \in Tasks : SensorPoll(p)
    \/ \E p \in Tasks, s \in Statuses, nt \in RacePayloads :
           RefreshApplied(p, s, nt)
    \/ \E p \in Tasks : ResumeGet(p)
    \/ \E p \in Tasks : RefreshTransportFail(p)
    \/ \E p \in Tasks, s \in Statuses : RaceAnswered(p, s)
    \/ \E p \in Tasks : GetTransportFail(p)

SpecConcurrent == InitSetup /\ [][NextConcurrent]_vars

\* ------------------------------------------------- answered network calls
\* the sensors poll a client whose config entry is attached, one update at
\* a time
NextPolling ==
    \/ Tick
    \/ \E p \in Tasks, o \in Ops : PollRead(p, o)
    \/ \E p \in Tasks, s \in Statuses, nt \in TokenPayloads :
           RefreshRespond(p, s, nt)
    \/ \E p \in Tasks : RefreshTransportFail(p)
    \/ \E p \in Tasks, s \in Statuses : GetAnswered(p, s)
    \/ \E p \in Tasks : GetTransportFail(p)
    \/ \E p \in Tasks : Return(p)

\* every network call of task p is answered or times out after 30 seconds
\* (ClientTimeout(total=30), api.py:143, 179, 240, 319)
NetworkAnswers(p) ==
    \/ \E s \in Statuses, nt \in TokenPayloads : RefreshRespond(p, s, nt)
    \/ RefreshTransportFail(p)
    \/ \E s \in Statuses : GetAnswered(p, s)
    \/ GetTransportFail(p)

SpecFair ==
    /\ InitSetup
    /\ [][NextPolling]_vars
    /\ \A p \in Tasks : WF_vars(NetworkAnswers(p))

\* ------------------------------------------- _is_token_expired on its own
\* expires_in values and clock offsets around the expiry boundary
ExpiryInputs == {-1, 0, 1, 299, 300, 301, 3600}
CreatedInputs == {0, 1}
OffsetInputs == {-2, -1, 0, 1, 2}

InitExpiry ==
    /\ access_token \in {None, Some(""), Some("a0")}
    /\ refresh_token = Some("r0")
    /\ expires_in \in {None} \cup {Some(e) : e \in ExpiryInputs}
    /\ token_created_at \in CreatedInputs
    /\ last_token_refresh = token_created_at
    /\ \E e \in ExpiryInputs, d \in OffsetInputs :
           now = token_created_at + e - ExpiryBuffer + d
    /\ config_entry = Some("entry")
    /\ entry_data = [username |-> "user", password |-> "secret",
                     access_token |-> access_token,
                     refresh_token |-> refresh_token,
                     expires_in |-> expires_in]
    /\ pc = [p \in Tasks |-> "idle"]
    /\ op = [p \in Tasks |-> "none"]
    /\ log = [p \in Tasks |-> <<>>]
    /\ outcome = [p \in Tasks |-> Pending]
    /\ is_expired_ret = None
    /\ conn_sensor = SensorUnknown
    /\ issued = IssuedAt(entry_data, token_created_at)

\* a direct call of _is_token_expired() (api.py:50-57)
CallIsTokenExpired ==
    /\ is_expired_ret = None
    /\ is_expired_ret' =
           Some(IsTokenExpired(access_token, expires_in,
                               token_created_at, now))
    /\ UNCHANGED <<clientVars, config_entry, now, pc, op, log, outcome,
                   conn_sensor, issued>>

NextExpiry == CallIsTokenExpired

SpecExpiry == InitExpiry /\ [][NextExpiry]_vars

\* ------------------------------------------------ reading the event log
IsGet(e) == e.ev = "GET"
IsPost(e) == e.ev = "POST"
IsGResp(e) == e.ev = "GRESP"
GetIdx(l) == {i \in 1..Len(l) : IsGet(l[i])}
PostIdx(l) == {i \in 1..Len(l) : IsPost(l[i])}
\* the statuses of the GET responses of an invocation, in order
GetStatuses(l) ==
    LET r == SelectSeq(l, IsGResp) IN [i \in 1..Len(r) |-> r[i].status]
\* the step appends event kind ev with status s to the log of task p
Appends(p, ev, s) ==
    /\ Len(log'[p]) > Len(log[p])
    /\ log'[p][Len(log[p]) + 1].ev = ev
    /\ log'[p][Len(log[p]) + 1].status = s
EntryTokensInSync ==
    /\ entry_data.access_token = access_token
    /\ entry_data.refresh_token = refresh_token
    /\ entry_data.expires_in = expires_in

\* ------------------------------------------------------------------- C1
\* C1: a read operation whose first GET is answered 401 and whose next GET
\* is answered 200 made exactly two GETs with exactly one refresh POST
\* between them, and returned what the 200 payload gives.
C1_RetryOnceWithRefresh ==
    \A p \in Tasks :
        LET l == log[p] IN
        (pc[p] = "done" /\ GetStatuses(l) = <<401, 200>>) =>
            /\ Cardinality(GetIdx(l)) = 2
            /\ \E g1, g2 \in GetIdx(l) :
                   /\ g1 < g2
                   /\ Cardinality({i \in PostIdx(l) : g1 < i /\ i < g2}) = 1
            /\ outcome[p].kind \in {"ok", "InvalidFormat", "NoPowerData"}

\* ------------------------------------------------------------------- C2
\* C2: an invocation of a read operation issues at most two GETs; when both
\* are answered 401 it has failed with a status error carrying 401.
C2_AtMostTwoGets ==
    \A p \in Tasks :
        LET l == log[p] IN
        /\ Cardinality(GetIdx(l)) <= 2
        /\ GetStatuses(l) = <<401, 401>> =>
               /\ pc[p] = "done"
               /\ outcome[p] = Err("StatusError", 401)
               /\ l[Len(l)].ev = "GRESP"

C2_Witness ==
    \E p \in Tasks :
        /\ GetStatuses(log[p]) = <<401, 401>>
        /\ Cardinality(GetIdx(log[p])) = 2

\* ------------------------------------------------------------------- C3
\* C3 as stated: _is_token_expired() is true exactly when access_token is
\* unset, or expires_in is unset, or now >= token_created_at + expires_in
\* - 300, for every integer expires_in including 0.
C3_ExpiredFromBoundary ==
    is_expired_ret # None =>
        is_expired_ret[1] =
            (\/ ~TruthyStr(access_token)
             \/ expires_in = None
             \/ now >= token_created_at + expires_in[1] - 300)

\* C3 amended: _is_token_expired() is true exactly when access_token is
\* unset or empty, or expires_in is unset or 0, or now is strictly greater
\* than token_created_at + expires_in - 300; with a token and a nonzero
\* expires_in = E it is false at token_created_at + E - 301 and at
\* token_created_at + E - 300 and true at token_created_at + E - 299.
C3_ExpiredPastBoundary ==
    is_expired_ret # None =>
        /\ is_expired_ret[1] =
               (\/ access_token \in {None, Some("")}
                \/ expires_in \in {None, Some(0)}
                \/ now > token_created_at + expires_in[1] - 300)
        /\ (access_token = Some("a0") /\ expires_in \notin {None, Some(0)}) =>
               LET E == expires_in[1] IN
               /\ now = token_created_at + E - 301 => is_expired_ret[1] = FALSE
               /\ now = token_created_at + E - 300 => is_expired_ret[1] = FALSE
               /\ now = token_created_at + E - 299 => is_expired_ret[1] = TRUE

C3_Witness ==
    /\ is_expired_ret = Some(FALSE)
    /\ access_token = Some("a0")
    /\ expires_in = Some(301)
    /\ now = token_created_at + 301 - 300

\* ------------------------------------------------------------------- C4
\* C4: a refresh answered 200 on a client with a config entry attached
\* leaves the persisted access_token, refresh_token and expires_in equal to
\* the in-memory ones and every other key of the record as it was.
C4_PersistedMatchesMemory ==
    [][\A p \in Tasks :
          (Appends(p, "PRESP", 200) /\ config_entry # None) =>
              /\ EntryTokensInSync'
              /\ DOMAIN entry_data' = DOMAIN entry_data
              /\ \A k \in DOMAIN entry_data \
                      {CONF_ACCESS_TOKEN, CONF_REFRESH_TOKEN, CONF_EXPIRES_IN} :
                     entry_data'[k] = entry_data[k]]_vars

C4_Witness ==
    /\ config_entry # None
    /\ entry_data.access_token = Some("a1")
    /\ entry_data.refresh_token = Some("r1")
    /\ entry_data.username = "user"
    /\ \E p \in Tasks : \E i \in 1..Len(log[p]) :
           log[p][i].ev = "PRESP" /\ log[p][i].status = 200

\* ------------------------------------------------------------------- C5
\* C5: a refresh answered with a status other than 200 fails with a
\* token-refresh error carrying that status and changes neither the token
\* fields, the two timestamps nor the persisted record.
C5_FailedRefreshChangesNothing ==
    [][\A p \in Tasks : \A s \in Statuses \ {200} :
          Appends(p, "PRESP", s) =>
              /\ UNCHANGED clientVars
              /\ outcome'[p] = Err("TokenRefreshError", s)
              /\ pc'[p] = "done"]_vars

C5_Witness ==
    \E p \in Tasks :
        /\ pc[p] = "done"
        /\ outcome[p] = Err("TokenRefreshError", 500)
        /\ config_entry # None
        /\ access_token = Some("a0")

\* ------------------------------------------------------------------- C6
\* C6: whenever a refresh is answered 200, with or without a config entry,
\* the in-memory access_token, refresh_token and expires_in are those of
\* the response payload and both timestamps are the current time.
C6_RefreshUpdatesMemory ==
    [][\A p \in Tasks : \A nt \in TokenPayloads :
          RefreshRespond(p, 200, nt) =>
              /\ access_token' = nt.access_token
              /\ refresh_token' = nt.refresh_token
              /\ expires_in' = nt.expires_in
              /\ token_created_at' = now
              /\ last_token_refresh' = now]_vars

\* ------------------------------------------------------------------- C7
\* C7: no GET is sent with an Authorization header built from an absent
\* access_token.
C7_NoGetWithoutToken ==
    \A p \in Tasks : \A i \in GetIdx(log[p]) : TruthyStr(log[p][i].tok)

\* ------------------------------------------------------------------- C8
\* C8: a read operation called while access_token is absent fails with the
\* no-token error without sending a GET or a refresh POST, and changes
\* neither the token state nor the persisted record.
C8_NoTokenFailsFirst ==
    [][\A p \in Tasks :
          (pc[p] = "idle" /\ pc'[p] # "idle" /\ op'[p] \in Ops
                          /\ access_token = None) =>
              /\ pc'[p] = "done"
              /\ outcome'[p] = Err("NoToken", 0)
              /\ log'[p] = <<>>
              /\ UNCHANGED clientVars]_vars

C8_Witness ==
    \E p \in Tasks :
        /\ pc[p] = "done"
        /\ outcome[p] = Err("NoToken", 0)
        /\ log[p] = <<>>
        /\ access_token = None
        /\ refresh_token = Some("r0")

\* ------------------------------------------------------------------- C9
\* C9: when a read operation starts by refreshing and the refresh POST is
\* answered 200, the first GET follows that one POST and carries the
\* access token of the refresh response.
C9_FirstGetUsesRefreshedToken ==
    \A p \in Tasks :
        LET l == log[p] IN
        (Len(l) >= 2 /\ l[1].ev = "POST" /\ l[2].ev = "PRESP"
                     /\ l[2].status = 200) =>
            /\ Len(l) >= 3
            /\ l[3].ev = "GET"
            /\ l[3].tok = l[2].tok

\* ------------------------------------------------------------------ C10
\* C10: a refresh that fails inside a read operation (no refresh token, a
\* non-200 answer or a transport failure) ends the operation with that
\* failure: it is the last event of the invocation, no GET follows it.
RefreshFailureOf(e) ==
    IF e.ev = "NOREFRESH" THEN Err("NoRefreshToken", 0)
    ELSE IF e.ev = "PFAIL" THEN Err("Transport", 0)
    ELSE Err("TokenRefreshError", e.status)

IsRefreshFailure(e) ==
    \/ e.ev \in {"NOREFRESH", "PFAIL"}
    \/ e.ev = "PRESP" /\ e.status # 200

C10_RefreshFailurePropagates ==
    \A p \in Tasks : \A i \in 1..Len(log[p]) :
        IsRefreshFailure(log[p][i]) =>
            /\ i = Len(log[p])
            /\ pc[p] = "done"
            /\ outcome[p] = RefreshFailureOf(log[p][i])

C10_Witness ==
    \E p \in Tasks :
        LET l == log[p] IN
        /\ Len(l) = 4
        /\ l[1].ev = "GET"
        /\ l[2].ev = "GRESP" /\ l[2].status = 401
        /\ l[3].ev = "POST"
        /\ IsRefreshFailure(l[4])
        /\ outcome[p].kind = "TokenRefreshError"

\* ------------------------------------------------------------------ C11
\* the token is expired by the local clock (restated from api.py:52-57)
LocallyExpired ==
    \/ ~TruthyStr(access_token)
    \/ ~TruthyInt(expires_in)
    \/ (token_created_at + expires_in[1]) - now < 300

\* the step of task p runs _ensure_valid_token: a read operation is called,
\* or its first GET is answered 401
EnsureRuns(p) ==
    \/ pc[p] = "idle" /\ pc'[p] # "idle" /\ op'[p] \in Ops
    \/ pc[p] = "get_first" /\ Appends(p, "GRESP", 401)

\* C11: a refresh attempted while refresh_token is absent fails with the
\* no-refresh-token error, sends no POST (and nothing else), and changes
\* neither the token fields, the timestamps nor the persisted record.
C11_NoRefreshTokenFailsFirst ==
    [][\A p \in Tasks :
          (EnsureRuns(p) /\ TruthyStr(access_token) /\ LocallyExpired
                         /\ refresh_token = None) =>
              /\ pc'[p] = "done"
              /\ outcome'[p] = Err("NoRefreshToken", 0)
              /\ PostIdx(log'[p]) = PostIdx(log[p])
              /\ GetIdx(log'[p]) = GetIdx(log[p])
              /\ UNCHANGED clientVars]_vars

C11_Witness ==
    \E p \in Tasks :
        /\ pc[p] = "done"
        /\ outcome[p] = Err("NoRefreshToken", 0)
        /\ PostIdx(log[p]) = {}
        /\ refresh_token = None
        /\ access_token = Some("a0")

\* ------------------------------------------------------------------ C12
\* the 200 body that ended the invocation of task p
LastBody(p) == log[p][Len(log[p])].body
EndedOn200(p) ==
    /\ pc[p] = "done"
    /\ log[p] # <<>>
    /\ log[p][Len(log[p])].ev = "GRESP"
    /\ log[p][Len(log[p])].status = 200

\* C12: get_current_power answered 200 fails with the no-power-data error
\* when status is "ok" and results is an empty array, and with the
\* invalid-format error when results is missing or status is not "ok".
C12_EmptyVersusMalformed ==
    \A p \in Tasks :
        (op[p] = "get_current_power" /\ EndedOn200(p)) =>
            LET b == LastBody(p) IN
            /\ (b.status = "ok" /\ b.results = Some(<<>>)) =>
                   outcome[p] = Err("NoPowerData", 0)
            /\ (b.status # "ok" \/ b.results = None) =>
                   outcome[p] = Err("InvalidFormat", 0)

\* ------------------------------------------------------------------ C13
\* C13: get_current_power answered 200 with status "ok" and a non-empty
\* results sequence returns power and timestamp of the last element (0 and
\* "" for a field the element lacks) with unit "W", on the first attempt
\* and on the retry alike.
C13_ReturnsLastReading ==
    \A p \in Tasks :
        (op[p] = "get_current_power" /\ EndedOn200(p)) =>
            LET b == LastBody(p) IN
            (b.status = "ok" /\ b.results # None /\ b.results[1] # <<>>) =>
                LET r == b.results[1]
                    last == r[Len(r)]
                IN outcome[p] =
                     Ok([power |-> IF last.power = None THEN 0
                                   ELSE last.power[1],
                         timestamp |-> IF last.timestamp = None THEN ""
                                       ELSE last.timestamp[1],
                         unit |-> "W"])

C13_Witness ==
    \E p \in Tasks :
        /\ op[p] = "get_current_power"
        /\ EndedOn200(p)
        /\ GetStatuses(log[p]) = <<401, 200>>
        /\ LastBody(p).results = Some(<<Reading1, Reading2>>)
        /\ outcome[p].kind = "ok"
        /\ outcome[p].value.power = 150
        /\ outcome[p].value.timestamp = "t2"

\* ------------------------------------------------------------------ C14
\* C14: get_meter_info called with a present, locally unexpired token sends
\* one GET carrying that token and no refresh POST; answered 200 it returns
\* the body unchanged; neither step changes the token state or the
\* persisted record.
C14_MeterInfoPlainRead ==
    [][\A p \in Tasks :
          /\ (pc[p] = "idle" /\ op'[p] = "get_meter_info"
                 /\ TruthyStr(access_token) /\ ~LocallyExpired) =>
                 /\ log'[p] = <<GetEv(access_token)>>
                 /\ UNCHANGED clientVars
          /\ (op[p] = "get_meter_info" /\ Len(log[p]) = 1
                 /\ log[p][1].ev = "GET" /\ Appends(p, "GRESP", 200)) =>
                 /\ pc'[p] = "done"
                 /\ Len(log'[p]) = 2
                 /\ outcome'[p] = Ok(log'[p][2].body)
                 /\ UNCHANGED clientVars]_vars

C14_Witness ==
    \E p \in Tasks :
        /\ op[p] = "get_meter_info"
        /\ EndedOn200(p)
        /\ Len(log[p]) = 2
        /\ log[p][1] = GetEv(Some("a0"))
        /\ access_token = Some("a0")
        /\ outcome[p] = Ok([json |-> "j2"])

\* ------------------------------------------------------------------ C15
\* C15: a first GET answered with a status other than 200 and 401, or a
\* retry GET answered with any status other than 200, ends the operation
\* with a status error carrying that status; nothing more is sent and the
\* token state and the persisted record are unchanged.
C15_OtherStatusFailsAtOnce ==
    [][\A p \in Tasks : \A s \in Statuses \ {200} :
          (Appends(p, "GRESP", s) /\ (s # 401 \/ pc[p] = "get_retry")) =>
              /\ pc'[p] = "done"
              /\ outcome'[p] = Err("StatusError", s)
              /\ Len(log'[p]) = Len(log[p]) + 1
              /\ UNCHANGED clientVars]_vars

C15_Witness ==
    \E p \in Tasks :
        /\ pc[p] = "done"
        /\ GetStatuses(log[p]) = <<500>>
        /\ PostIdx(log[p]) = {}
        /\ outcome[p] = Err("StatusError", 500)

\* ------------------------------------------------------------------ C18
\* C18: a transport failure of a GET or of a refresh POST ends the read
\* operation with that failure: nothing more is sent by the invocation and
\* the token state and the persisted record are unchanged.
C18_TransportFailureEndsRead ==
    [][\A p \in Tasks :
          (op[p] \in Ops /\
           (Appends(p, "GFAIL", 0) \/ Appends(p, "PFAIL", 0))) =>
              /\ pc'[p] = "done"
              /\ outcome'[p] = Err("Transport", 0)
              /\ Len(log'[p]) = Len(log[p]) + 1
              /\ UNCHANGED clientVars]_vars

C18_Witness ==
    \E p \in Tasks :
        LET l == log[p] IN
        /\ pc[p] = "done"
        /\ Len(l) = 4
        /\ l[2].ev = "GRESP" /\ l[2].status = 401
        /\ l[3].ev = "GET"
        /\ l[4].ev = "GFAIL"
        /\ outcome[p] = Err("Transport", 0)

\* ------------------------------------------------------------------ C16
\* C16: no step of authenticate changes the persisted record; a 200
\* response makes it return the token payload and sets token_created_at and
\* last_token_refresh to now; any other response makes it fail with an
\* authentication error carrying that status and leaves the timestamps and
\* the token fields unchanged.
C16_AuthenticateFrame ==
    [][\A p \in Tasks :
          /\ (op[p] = "authenticate" \/ op'[p] = "authenticate") =>
                 entry_data' = entry_data
          /\ Appends(p, "ARESP", 200) =>
                 /\ pc'[p] = "done"
                 /\ outcome'[p] = Ok(log'[p][Len(log'[p])].body)
                 /\ token_created_at' = now
                 /\ last_token_refresh' = now
          /\ \A s \in Statuses \ {200} :
                 Appends(p, "ARESP", s) =>
                     /\ pc'[p] = "done"
                     /\ outcome'[p] = Err("AuthenticationError", s)
                     /\ UNCHANGED clientVars]_vars

C16_Witness ==
    \E p \in Tasks :
        /\ op[p] = "authenticate"
        /\ pc[p] = "done"
        /\ outcome[p].kind = "ok"
        /\ outcome[p].value.access_token = Some("a1")
        /\ now >= 1
        /\ token_created_at = now
        /\ last_token_refresh = now
        /\ access_token = Some("a0")

\* ------------------------------------------------------------------ C17
\* C17: in the integration, whatever reads, refreshes and restarts have
\* happened, the client's access_token, refresh_token and expires_in and the
\* persisted record hold the token set issued by the most recent successful
\* refresh, or by the setup-flow login if no refresh succeeded; in
\* particular a client rebuilt by a restart holds it.
C17_RestartKeepsIssuedTokens ==
    /\ access_token = issued.access_token
    /\ refresh_token = issued.refresh_token
    /\ expires_in = issued.expires_in
    /\ EntryTokensInSync

\* a client rebuilt after a refresh had replaced the setup-flow tokens
C17_Witness ==
    /\ token_created_at > issued.at
    /\ issued.at >= 1
    /\ access_token = Some("a1")
    /\ refresh_token = Some("r1")
    /\ expires_in = Some(3600)
    /\ \A p \in Tasks : pc[p] = "idle"

\* ------------------------------------------------------------------ C19
\* C19: every step that ends an update of the connection sensor leaves it
\* ("Connected", available) if that update's get_initialisation_data call
\* succeeded and ("Disconnected", unavailable) if it failed in any way,
\* whatever the sensor showed before; the sensor changes only by such an
\* update or by a restart.
C19_SensorFollowsLastUpdate ==
    [][/\ \A p \in Tasks :
             (/\ op[p] = "get_initialisation_data"
              /\ pc[p] = "done" /\ pc'[p] = "idle"
              /\ ~Restart) =>
                 conn_sensor' =
                     IF outcome[p].kind = "ok"
                     THEN [native_value |-> "Connected", available |-> TRUE]
                     ELSE [native_value |-> "Disconnected",
                           available |-> FALSE]
       /\ conn_sensor' # conn_sensor =>
              \/ Restart
              \/ \E p \in Tasks : /\ op[p] = "get_initialisation_data"
                                  /\ pc[p] = "done" /\ pc'[p] = "idle"]_vars

C19_Witness ==
    /\ conn_sensor = [native_value |-> "Disconnected", available |-> FALSE]
    /\ \A p \in Tasks : pc[p] = "idle"
    /\ now >= 1

\* ------------------------------------------------------------------ C20
\* C20: token_created_at is the time at which the in-memory access token
\* was issued, so _is_token_expired() is true whenever the token's real age
\* since issuance is at least expires_in - 300 seconds.
C20_CreatedAtIsIssueTime ==
    /\ token_created_at = issued.at
    /\ (/\ TruthyStr(access_token)
        /\ TruthyInt(expires_in)
        /\ access_token = issued.access_token
        /\ now - issued.at >= expires_in[1] - ExpiryBuffer) =>
           IsTokenExpired(access_token, expires_in, token_created_at, now)

C22_RefreshNotSerialised ==
    [][\A p \in Tasks :
          (/\ pc[p] = "idle" /\ pc'[p] # "idle"
           /\ HasToken(access_token)
           /\ IsTokenExpired(access_token, expires_in, token_created_at, now)
           /\ TruthyStr(refresh_token)) =>
              /\ pc'[p] = "refresh_pre"
              /\ log'[p] = <<PostEv(refresh_token)>>]_vars

\* both operations wait for the answer to a refresh POST with the same token
C22_Witness ==
    /\ \A p \in Tasks : pc[p] = "refresh_pre"
    /\ \A p \in Tasks : log[p] = <<PostEv(Some("r0"))>>
    /\ refresh_token = Some("r0")

\* ------------------------------------------------------------------ C23
\* C23: when every network call is eventually answered or times out, every
\* invocation of a read operation that has started ends with a result or a
\* failure, whatever the server answers.
C23_ReadTerminates ==
    \A p \in Tasks : (pc[p] # "idle") ~> (pc[p] = "done")

\* an invocation that took the longest path: refresh, GET, 401, refresh, GET
C23_Witness ==
    \E p \in Tasks :
        /\ pc[p] = "done"
        /\ Len(log[p]) = 8
        /\ Cardinality(PostIdx(log[p])) = 2
        /\ Cardinality(GetIdx(log[p])) = 2

\* ------------------------------------------------------------------ C24
\* C24: for the client of the integration, at every point where another
\* operation may run, the in-memory access_token, refresh_token and
\* expires_in equal the fields of the persisted record, and both hold the
\* token set of the refresh response applied last.
C24_MemoryMatchesRecord ==
    /\ entry_data[CONF_ACCESS_TOKEN] = access_token
    /\ entry_data[CONF_REFRESH_TOKEN] = refresh_token
    /\ entry_data[CONF_EXPIRES_IN] = expires_in
    /\ IssuedAt(entry_data, issued.at) = issued

\* two refreshes overlapped (both POSTs carried r0); the answer with a1 went
\* to t1, the answer with a2 to t2 and was applied last
C24_Witness ==
    /\ \A p \in Tasks : Len(log[p]) >= 2
    /\ \A p \in Tasks : log[p][1] = PostEv(Some("r0"))
    /\ \A p \in Tasks : log[p][2].status = 200
    /\ log["t1"][2].tok = Some("a1")
    /\ log["t2"][2].tok = Some("a2")
    /\ access_token = Some("a2")
    /\ entry_data[CONF_ACCESS_TOKEN] = Some("a2")

\* ------------------------------------------------------------------ C25
\* C25: one invocation of a read operation sends at most two refresh POSTs:
\* at most one before its first GET and at most one after it (between the
\* 401 and the retry GET), also when a refresh answer carries an expires_in
\* of 300 seconds or less.
C25_AtMostTwoRefreshes ==
    \A p \in Tasks :
        LET posts == PostIdx(log[p])
            gets == GetIdx(log[p])
        IN /\ Cardinality(posts) <= 2
           /\ Cardinality({i \in posts : \A g \in gets : i < g}) <= 1
           /\ Cardinality({i \in posts : \E g \in gets : g < i}) <= 1

\* alone and at time 0, an invocation refreshed twice: its first refresh was
\* answered with expires_in = 299
C25_Witness ==
    \E p \in Tasks :
        /\ \A q \in Tasks \ {p} : pc[q] = "idle"
        /\ now = 0
        /\ Cardinality(PostIdx(log[p])) = 2
        /\ Cardinality(GetIdx(log[p])) = 2
        /\ log[p][1].ev = "POST"
        /\ expires_in = Some(299)

\* ------------------------------------------------------------------ C26
\* C26: the retry GET after a 401 carries the client's access_token as it is
\* when the retry is sent, also when that token was issued to another
\* operation's refresh while the first GET was in flight.
C26_RetryCarriesCurrentToken ==
    [][\A p \in Tasks :
          (pc[p] # "get_retry" /\ pc'[p] = "get_retry") =>
              /\ Len(log'[p]) > Len(log[p])
              /\ log'[p][Len(log'[p])] = GetEv(access_token')]_vars

\* the retrying operation sent no refresh POST, yet its retry carries a
\* token other than the one its first GET carried
C26_Witness ==
    \E p \in Tasks :
        /\ pc[p] = "get_retry"
        /\ PostIdx(log[p]) = {}
        /\ Len(log[p]) = 3
        /\ log[p][1] = GetEv(Some("a0"))
        /\ log[p][2].status = 401
        /\ log[p][3] = GetEv(Some("a1"))
        /\ access_token = Some("a1")

====
